---- MODULE Spec2Model ----
(***************************************************************************)
(* Forensic Risk Engine (app.py): the adaptive risk calculation            *)
(* (calculate_risk), the sheet column mapper (smart_map_columns) and the   *)
(* Module 1 rerun / session-state cycle, and the Module 3 sentiment        *)
(* scanner's rerun cycle.                                                  *)
(*                                                                         *)
(* Representation.                                                         *)
(*   - A Python string that the code inspects character by character       *)
(*     (column headers, cell text handed to pd.to_numeric) is a sequence   *)
(*     of one-character strings.                                           *)
(*   - A number is a fixed-point integer counting hundredths, so 106.5 is  *)
(*     10650 and 0.5 is 50.  The code compares values only after rounding  *)
(*     them to one or two decimals, so hundredths are exact for every      *)
(*     comparison; quotients are taken exactly and rounded half-to-even,   *)
(*     as Series.round does.                                               *)
(*   - A DataFrame is [columns, data]: the column labels in order and the  *)
(*     rows, each row a sequence of cells aligned with the labels.         *)
(***************************************************************************)
EXTENDS Integers, Sequences, FiniteSets, TLC

VARIABLES
  df,          \* calculation harness: the record set handed to calculate_risk
  source,      \* calculation harness: where df came from
  out,         \* calculation harness: what each successive application returned
  input_type,  \* Module 1: the radio selection of the current rerun
  df_in,       \* Module 1: df_in as it stands when the button is tested
  pressed,     \* Module 1: st.button("Run Forensic Analysis") of the current rerun
  message,     \* Module 1: what the button handler reported in the current rerun
  session,     \* st.session_state, the keys set so far
  displayed,   \* Module 1: what the results section rendered in the current rerun
  input_method,  \* Module 3: the radio selection of the current rerun
  url,           \* Module 3: the text_input's content ("" when empty or not drawn)
  fetch_pressed, \* Module 3: st.button("Fetch Text from URL") of the current rerun
  user_text,     \* Module 3: user_text as it stands when the analysis button is tested
  run_pressed,   \* Module 3: st.button("Run Sentiment Analysis") of the current rerun
  page           \* Module 3: what the current rerun wrote to the page, in order

risk_vars == <<df, source, out, input_type, df_in, pressed, message, session, displayed>>
scan_vars == <<input_method, url, fetch_pressed, user_text, run_pressed, page>>
vars == <<risk_vars, scan_vars>>

(***************************************************************************)
(* Bounds of the model.                                                    *)
(***************************************************************************)
MaxRows == 31
MaxRuns == 2
MaxChars == 1200   \* the longest text, in characters

None == [t |-> "None"]

(***************************************************************************)
(* Python evaluates an argument once, before the call.  Call(Op, e) does   *)
(* the same: e is evaluated to a value and Op is applied to that value.    *)
(***************************************************************************)
Call(Op(_), e) == CHOOSE r \in {Op(x) : x \in {e}} : TRUE

(***************************************************************************)
(* Cells.                                                                  *)
(***************************************************************************)
Num(x) == [t |-> "num", v |-> x, s |-> <<>>, l |-> "", o |-> <<>>]
NaN == [t |-> "nan", v |-> 0, s |-> <<>>, l |-> "", o |-> <<>>]
Str(chars) == [t |-> "str", v |-> 0, s |-> chars, l |-> "", o |-> <<>>]
Txt(label) == [t |-> "txt", v |-> 0, s |-> <<>>, l |-> label, o |-> <<>>]
Lst(items) == [t |-> "list", v |-> 0, s |-> <<>>, l |-> "", o |-> items]

\* x units as a fixed-point number of hundredths
Units(x) == x * 100

(***************************************************************************)
(* pd.to_numeric(..., errors='coerce').fillna(0)                           *)
(***************************************************************************)
Digit == <<"0", "1", "2", "3", "4", "5", "6", "7", "8", "9">>

IsDigit(c) == \E i \in 1..10 : Digit[i] = c

DigitValue(c) == (CHOOSE i \in 1..10 : Digit[i] = c) - 1

\* the number the first k digits of ds spell
RECURSIVE DigitsValue(_, _)
DigitsValue(ds, k) ==
  IF k = 0 THEN 0 ELSE 10 * DigitsValue(ds, k - 1) + DigitValue(ds[k])

AllDigits(ds) == \A i \in 1..Len(ds) : IsDigit(ds[i])

\* The numerals of the model: [-]digits[.digits], at most two decimals.
\* Anything else fails to parse (errors='coerce' turns it into NaN).
ParseNumeral(chars) ==
  LET neg  == chars # <<>> /\ chars[1] = "-"
      body == IF neg THEN Tail(chars) ELSE chars
      dots == {i \in 1..Len(body) : body[i] = "."}
      dot  == IF dots = {} THEN Len(body) + 1
              ELSE CHOOSE i \in dots : \A j \in dots : i <= j
      ip   == SubSeq(body, 1, dot - 1)
      fp   == SubSeq(body, dot + 1, Len(body))
      ok   == /\ AllDigits(ip) /\ AllDigits(fp)
              /\ Len(ip) + Len(fp) > 0
              /\ Len(fp) <= 2
      frac == IF Len(fp) = 1 THEN 10 * DigitsValue(fp, 1) ELSE DigitsValue(fp, Len(fp))
      mag  == 100 * DigitsValue(ip, Len(ip)) + frac
  IN IF ok THEN Num(IF neg THEN 0 - mag ELSE mag) ELSE NaN

to_numeric(cell) ==
  CASE cell.t = "num" -> cell
    [] cell.t = "str" -> ParseNumeral(cell.s)
    [] OTHER -> NaN

fillna(cell, value) == IF cell.t = "nan" THEN Num(value) ELSE cell

(***************************************************************************)
(* Series.round: the exact quotient n / d (d > 0) rounded half-to-even to  *)
(* an integer.                                                             *)
(***************************************************************************)
RoundHalfEven(n, d) ==
  LET q == n \div d
      r == n % d
  IN IF 2 * r < d THEN q
     ELSE IF 2 * r > d THEN q + 1
     ELSE IF q % 2 = 0 THEN q ELSE q + 1

\* n / d rounded to `decimals` places (1 or 2), as hundredths.
\* A zero divisor is Python's ZeroDivisionError.
ZeroDivisionError == [t |-> "ZeroDivisionError", v |-> 0, s |-> <<>>, l |-> "", o |-> <<>>]

RoundedQuotient(n, d, decimals) ==
  IF d = 0 THEN ZeroDivisionError
  ELSE LET m == IF d < 0 THEN 0 - n ELSE n
           e == IF d < 0 THEN 0 - d ELSE d
       IN IF decimals = 1 THEN Num(10 * RoundHalfEven(10 * m, e))
          ELSE Num(RoundHalfEven(100 * m, e))

(***************************************************************************)
(* DataFrame access.                                                       *)
(***************************************************************************)
Positions(frame, c) == {i \in 1..Len(frame.columns) : frame.columns[i] = c}

HasColumn(frame, c) == Positions(frame, c) # {}

ColumnIndex(frame, c) ==
  CHOOSE i \in Positions(frame, c) : \A j \in Positions(frame, c) : i <= j

\* row[c]
Get(frame, row, c) == row[ColumnIndex(frame, c)]

\* [i \in 1..n |-> e], evaluated once into a sequence.
Sequence(f) == f \o <<>>

\* df[c] = values   (values[i] is the cell of row i)
SetColumn(frame, c, values) ==
  IF HasColumn(frame, c)
  THEN LET k == ColumnIndex(frame, c)
       IN [frame EXCEPT !.data =
             Sequence([i \in 1..Len(frame.data) |->
                         [frame.data[i] EXCEPT ![k] = values[i]]])]
  ELSE [columns |-> Append(frame.columns, c),
        data |-> Sequence([i \in 1..Len(frame.data) |->
                             Append(frame.data[i], values[i])])]

(***************************************************************************)
(* Column labels, as character sequences.                                  *)
(***************************************************************************)
Company == <<"C","o","m","p","a","n","y">>
Pledge_Pct == <<"P","l","e","d","g","e","_","P","c","t">>
Sales == <<"S","a","l","e","s">>
Receivables == <<"R","e","c","e","i","v","a","b","l","e","s">>
Inventory == <<"I","n","v","e","n","t","o","r","y">>
CFO == <<"C","F","O">>
EBITDA == <<"E","B","I","T","D","A">>
Total_Assets == <<"T","o","t","a","l","_","A","s","s","e","t","s">>
Non_Current_Assets == <<"N","o","n","_","C","u","r","r","e","n","t","_","A","s","s","e","t","s">>
RPT_Vol == <<"R","P","T","_","V","o","l">>
DSO == <<"D","S","O">>
Cash_Quality == <<"C","a","s","h","_","Q","u","a","l","i","t","y">>
AQI == <<"A","Q","I">>
RPT_Intensity == <<"R","P","T","_","I","n","t","e","n","s","i","t","y">>
Risk_Group == <<"R","i","s","k","_","G","r","o","u","p">>
Forensic_Score == <<"F","o","r","e","n","s","i","c","_","S","c","o","r","e">>
Verdict == <<"V","e","r","d","i","c","t">>
Detailed_Report == <<"D","e","t","a","i","l","e","d","_","R","e","p","o","r","t">>

(***************************************************************************)
(* calculate_risk                                                          *)
(***************************************************************************)
cols == <<Sales, Receivables, Inventory, CFO, EBITDA, Pledge_Pct,
          Total_Assets, Non_Current_Assets, RPT_Vol>>

\* df[c] on the right-hand side: a missing label raises KeyError; a label
\* carried by several columns yields a DataFrame, which pd.to_numeric
\* refuses with TypeError.
ColumnRead(frame, c) ==
  IF Cardinality(Positions(frame, c)) = 0 THEN "KeyError"
  ELSE IF Cardinality(Positions(frame, c)) > 1 THEN "TypeError"
  ELSE ""

\* The exception of the first `for c in cols` iteration that fails, if any.
NormaliseRaises(frame) ==
  LET bad == {k \in 1..Len(cols) : ColumnRead(frame, cols[k]) # ""}
  IN IF bad = {} THEN ""
     ELSE ColumnRead(frame, cols[CHOOSE k \in bad : \A j \in bad : k <= j])

\* for c in cols: df[c] = pd.to_numeric(df[c], errors='coerce').fillna(0)
NormaliseColumn(frame, c) ==
  SetColumn(frame, c,
            [i \in 1..Len(frame.data) |->
               fillna(to_numeric(Get(frame, frame.data[i], c)), 0)])

RECURSIVE Normalise(_, _)
Normalise(frame, k) ==
  IF k > Len(cols) THEN frame
  ELSE LET rest(f) == Normalise(f, k + 1)
       IN Call(rest, NormaliseColumn(frame, cols[k]))

\* DSO_lambda on a 360-day year
DSO_lambda_360(frame, x) ==
  IF Get(frame, x, Sales).v > 0
  THEN RoundedQuotient(Get(frame, x, Receivables).v * 360, Get(frame, x, Sales).v, 1)
  ELSE Num(0)

DSO_lambda(frame, x) ==
  IF Get(frame, x, Sales).v > 0
  THEN RoundedQuotient(Get(frame, x, Receivables).v * 365, Get(frame, x, Sales).v, 1)
  ELSE Num(0)

\* Cash_Quality_lambda guarding against a zero divisor only
Cash_Quality_lambda_nonzero(frame, x) ==
  IF Get(frame, x, EBITDA).v # 0
  THEN RoundedQuotient(Get(frame, x, CFO).v, Get(frame, x, EBITDA).v, 2)
  ELSE Num(0)

Cash_Quality_lambda(frame, x) ==
  IF Get(frame, x, EBITDA).v > 0
  THEN RoundedQuotient(Get(frame, x, CFO).v, Get(frame, x, EBITDA).v, 2)
  ELSE Num(0)

AQI_lambda(frame, x) ==
  IF Get(frame, x, Total_Assets).v > 0
  THEN RoundedQuotient(Get(frame, x, Non_Current_Assets).v,
                       Get(frame, x, Total_Assets).v, 2)
  ELSE Num(0)

RPT_Intensity_lambda(frame, x) ==
  IF Get(frame, x, Sales).v > 0
  THEN RoundedQuotient(Get(frame, x, RPT_Vol).v * 100, Get(frame, x, Sales).v, 1)
  ELSE Num(0)

Critical == "Critical (>50%)"
Control == "Control (<50%)"
Moderate == "Moderate (10-50%)"
Safe == "Safe (<10%)"

\* lambda x: "Critical (>50%)" if x > 50 else "Control (<50%)"
binary_group(p) == IF p > Units(50) THEN Critical ELSE Control

\* get_3_buckets with the lower boundary exclusive
get_3_buckets_strict(p) ==
  IF p > Units(50) THEN Critical
  ELSE IF p > Units(10) THEN Moderate
  ELSE Safe

get_3_buckets(p) ==
  IF p > Units(50) THEN Critical
  ELSE IF p >= Units(10) THEN Moderate
  ELSE Safe

Binary == "Binary (Small Sample Protocol)"
TrafficLight == "Traffic Light (Large Sample Protocol)"

\* the sample-size test with the threshold inclusive
IsSmallSample_inclusive(sample_size) == sample_size <= 30

IsSmallSample(sample_size) == sample_size < 30

grouping_method(sample_size) ==
  IF IsSmallSample(sample_size) THEN Binary ELSE TrafficLight

risk_group(sample_size, p) ==
  IF IsSmallSample(sample_size) THEN binary_group(p) ELSE get_3_buckets(p)

\* One observation: the rule's text and the value its f-string embeds
\* (0 when the text embeds none).
Obs(text, value) == [text |-> text, value |-> value]

HighVerdict == "HIGH PROBABILITY OF MANIPULATION"
ModerateVerdict == "MODERATE RISK - Monitor Closely"
LowVerdict == "LOW RISK - Clean Health"

\* pledge_rule with `if` in place of `elif`: both tiers fire above 50
pledge_rule_both_tiers(pledge) ==
  IF pledge > Units(50)
  THEN [score |-> 25 + 10,
        obs |-> <<Obs("Critical Pledge Pressure", pledge), Obs("Moderate Pledge", pledge)>>]
  ELSE IF pledge > Units(20)
  THEN [score |-> 10, obs |-> <<Obs("Moderate Pledge", pledge)>>]
  ELSE [score |-> 0, obs |-> <<>>]

pledge_rule(pledge) ==
  IF pledge > Units(50)
  THEN [score |-> 25, obs |-> <<Obs("Critical Pledge Pressure", pledge)>>]
  ELSE IF pledge > Units(20)
  THEN [score |-> 10, obs |-> <<Obs("Moderate Pledge", pledge)>>]
  ELSE [score |-> 0, obs |-> <<>>]

\* cash_rule with `if` in place of `elif`: both tiers fire below 0.5
cash_rule_both_tiers(cash_quality) ==
  IF cash_quality < 50
  THEN [score |-> 30 + 15,
        obs |-> <<Obs("Fake Profit Alert", cash_quality), Obs("Weak Cash Flow", 0)>>]
  ELSE IF cash_quality < 80
  THEN [score |-> 15, obs |-> <<Obs("Weak Cash Flow", 0)>>]
  ELSE [score |-> 0, obs |-> <<>>]

cash_rule(cash_quality) ==
  IF cash_quality < 50
  THEN [score |-> 30, obs |-> <<Obs("Fake Profit Alert", cash_quality)>>]
  ELSE IF cash_quality < 80
  THEN [score |-> 15, obs |-> <<Obs("Weak Cash Flow", 0)>>]
  ELSE [score |-> 0, obs |-> <<>>]

dso_rule(dso) ==
  IF dso > Units(120)
  THEN [score |-> 20, obs |-> <<Obs("Aggressive Revenue", dso)>>]
  ELSE [score |-> 0, obs |-> <<>>]

rpt_rule(rpt_intensity) ==
  IF rpt_intensity > Units(10)
  THEN [score |-> 10, obs |-> <<Obs("Leakage Risk", rpt_intensity)>>]
  ELSE [score |-> 0, obs |-> <<>>]

\* verdict_of with the upper cut exclusive
verdict_of_strict(score) ==
  IF score > 60 THEN HighVerdict
  ELSE IF score >= 35 THEN ModerateVerdict
  ELSE LowVerdict

verdict_of(score) ==
  IF score >= 60 THEN HighVerdict
  ELSE IF score >= 35 THEN ModerateVerdict
  ELSE LowVerdict

\* accumulate with the Cash rules evaluated before the Pledge rules
accumulate_cash_first(rules) ==
  [score |-> 0 + rules[2].score + rules[1].score + rules[3].score + rules[4].score,
   obs |-> <<>> \o rules[2].obs \o rules[1].obs \o rules[3].obs \o rules[4].obs]

\* score and obs start at 0 and [] on every call; the four rule groups
\* run in this order, each adding its points and appending its text.
accumulate(rules) ==
  [score |-> 0 + rules[1].score + rules[2].score + rules[3].score + rules[4].score,
   obs |-> <<>> \o rules[1].obs \o rules[2].obs \o rules[3].obs \o rules[4].obs]

\* get_detailed_analysis starting from the score the row already carries
get_detailed_analysis_carrying(frame, row) ==
  LET carried == IF HasColumn(frame, Forensic_Score)
                 THEN Get(frame, row, Forensic_Score).v \div 100
                 ELSE 0
      acc == accumulate(<<pledge_rule(Get(frame, row, Pledge_Pct).v),
                          cash_rule(Get(frame, row, Cash_Quality).v),
                          dso_rule(Get(frame, row, DSO).v),
                          rpt_rule(Get(frame, row, RPT_Intensity).v)>>)
  IN [score |-> carried + acc.score, verdict |-> verdict_of(carried + acc.score),
      obs |-> acc.obs]

get_detailed_analysis(frame, row) ==
  LET acc == accumulate(<<pledge_rule(Get(frame, row, Pledge_Pct).v),
                          cash_rule(Get(frame, row, Cash_Quality).v),
                          dso_rule(Get(frame, row, DSO).v),
                          rpt_rule(Get(frame, row, RPT_Intensity).v)>>)
  IN [score |-> acc.score, verdict |-> verdict_of(acc.score), obs |-> acc.obs]

Rows(frame) == 1..Len(frame.data)

\* df['DSO'] = df.apply(lambda x: ..., axis=1).round(1)
SetDSO(f) == SetColumn(f, DSO, [i \in Rows(f) |-> DSO_lambda(f, f.data[i])])

SetCash_Quality(f) ==
  SetColumn(f, Cash_Quality, [i \in Rows(f) |-> Cash_Quality_lambda(f, f.data[i])])

SetAQI(f) == SetColumn(f, AQI, [i \in Rows(f) |-> AQI_lambda(f, f.data[i])])

SetRPT_Intensity(f) ==
  SetColumn(f, RPT_Intensity, [i \in Rows(f) |-> RPT_Intensity_lambda(f, f.data[i])])

\* sample_size = len(df); df['Risk_Group'] = df['Pledge_Pct'].apply(...)
SetRisk_Group(f) ==
  SetColumn(f, Risk_Group,
            [i \in Rows(f) |-> Txt(risk_group(Len(f.data), Get(f, f.data[i], Pledge_Pct).v))])

\* results = df.apply(get_detailed_analysis, axis=1) and the three
\* columns taken from it
SetResults(f) ==
  LET Score(g) ==
        SetColumn(g, Forensic_Score,
                  [i \in Rows(f) |-> Num(Units(get_detailed_analysis(f, f.data[i]).score))])
      Verdicts(g) ==
        SetColumn(g, Verdict,
                  [i \in Rows(f) |-> Txt(get_detailed_analysis(f, f.data[i]).verdict)])
      Reports(g) ==
        SetColumn(g, Detailed_Report,
                  [i \in Rows(f) |-> Lst(get_detailed_analysis(f, f.data[i]).obs)])
  IN Call(Reports, Call(Verdicts, Score(f)))

calculate_risk(frame) ==
  IF NormaliseRaises(frame) # ""
  THEN [raised |-> NormaliseRaises(frame), df |-> None, method |-> ""]
  ELSE
    LET scored ==
          Call(SetResults,
            Call(SetRisk_Group,
              Call(SetRPT_Intensity,
                Call(SetAQI,
                  Call(SetCash_Quality,
                    Call(SetDSO, Normalise(frame, 1)))))))
    IN [raised |-> "", df |-> scored, method |-> grouping_method(Len(frame.data))]

mapping_rules ==
  << [standard_name |-> Company,
      variations |-> << <<"c","o","m","p","a","n","y">>,
                      <<"e","n","t","i","t","y">>,
                      <<"n","a","m","e">>,
                      <<"f","i","r","m">> >>],
     [standard_name |-> Pledge_Pct,
      variations |-> << <<"p","l","e","d","g","e">>,
                      <<"e","n","c","u","m","b","e","r","e","d">>,
                      <<"p","r","o","m","o","t","e","r"," ","p","l","e","d","g","e">>,
                      <<"p","l","e","d","g","e","d">> >>],
     [standard_name |-> Sales,
      variations |-> << <<"s","a","l","e","s">>,
                      <<"r","e","v","e","n","u","e">>,
                      <<"t","u","r","n","o","v","e","r">>,
                      <<"i","n","c","o","m","e">>,
                      <<"t","o","p"," ","l","i","n","e">> >>],
     [standard_name |-> Receivables,
      variations |-> << <<"r","e","c","e","i","v","a","b","l","e","s">>,
                      <<"d","e","b","t","o","r","s">>,
                      <<"t","r","a","d","e"," ","r","e","c","e","i","v","a","b","l","e","s">>,
                      <<"a","c","c","o","u","n","t","s"," ","r","e","c","e","i","v","a","b","l","e">> >>],
     [standard_name |-> Inventory,
      variations |-> << <<"i","n","v","e","n","t","o","r","y">>,
                      <<"s","t","o","c","k">>,
                      <<"i","n","v","e","n","t","o","r","i","e","s">> >>],
     [standard_name |-> CFO,
      variations |-> << <<"c","f","o">>,
                      <<"c","f"," ","o","p","e","r","a","t","i","o","n","s">>,
                      <<"o","p","e","r","a","t","i","n","g"," ","c","a","s","h">>,
                      <<"c","a","s","h"," ","f","r","o","m"," ","o","p","e","r","a","t","i","o","n","s">>,
                      <<"c","a","s","h"," ","f","l","o","w"," ","f","r","o","m"," ","o","p","e","r","a","t","i","n","g">> >>],
     [standard_name |-> EBITDA,
      variations |-> << <<"e","b","i","t","d","a">>,
                      <<"o","p","e","r","a","t","i","n","g"," ","p","r","o","f","i","t">>,
                      <<"p","b","i","t">>,
                      <<"p","r","o","f","i","t"," ","b","e","f","o","r","e"," ","i","n","t","e","r","e","s","t">>,
                      <<"o","p","m">> >>],
     [standard_name |-> Total_Assets,
      variations |-> << <<"t","o","t","a","l"," ","a","s","s","e","t","s">>,
                      <<"b","a","l","a","n","c","e"," ","s","h","e","e","t"," ","t","o","t","a","l">>,
                      <<"a","s","s","e","t","s">> >>],
     [standard_name |-> Non_Current_Assets,
      variations |-> << <<"n","o","n"," ","c","u","r","r","e","n","t"," ","a","s","s","e","t","s">>,
                      <<"f","i","x","e","d"," ","a","s","s","e","t","s">>,
                      <<"l","o","n","g"," ","t","e","r","m"," ","a","s","s","e","t","s">> >>],
     [standard_name |-> RPT_Vol,
      variations |-> << <<"r","p","t">>,
                      <<"r","e","l","a","t","e","d"," ","p","a","r","t","y">>,
                      <<"r","e","l","a","t","e","d"," ","t","r","a","n","s","a","c","t","i","o","n">> >>] >>

LowerCase ==
  [c \in {"A", "B", "C", "D", "E", "F", "G", "H", "I", "J", "K", "L", "M", "N", "O", "P", "Q", "R", "S", "T", "U", "V", "W", "X", "Y", "Z"} |->
     CASE c = "A" -> "a"
       [] c = "B" -> "b"
       [] c = "C" -> "c"
       [] c = "D" -> "d"
       [] c = "E" -> "e"
       [] c = "F" -> "f"
       [] c = "G" -> "g"
       [] c = "H" -> "h"
       [] c = "I" -> "i"
       [] c = "J" -> "j"
       [] c = "K" -> "k"
       [] c = "L" -> "l"
       [] c = "M" -> "m"
       [] c = "N" -> "n"
       [] c = "O" -> "o"
       [] c = "P" -> "p"
       [] c = "Q" -> "q"
       [] c = "R" -> "r"
       [] c = "S" -> "s"
       [] c = "T" -> "t"
       [] c = "U" -> "u"
       [] c = "V" -> "v"
       [] c = "W" -> "w"
       [] c = "X" -> "x"
       [] c = "Y" -> "y"
       [] c = "Z" -> "z"]

(***************************************************************************)
(* smart_map_columns                                                       *)
(***************************************************************************)
Lower(chars) ==
  [i \in 1..Len(chars) |->
     IF chars[i] \in DOMAIN LowerCase THEN LowerCase[chars[i]] ELSE chars[i]]

\* needle in hay
Contains(hay, needle) ==
  \E i \in 1..(Len(hay) - Len(needle) + 1) :
     SubSeq(hay, i, i + Len(needle) - 1) = needle

Whitespace == {" ", "\n", "\t", "\r"}

RECURSIVE LStrip(_)
LStrip(chars) ==
  IF chars # <<>> /\ chars[1] \in Whitespace THEN LStrip(Tail(chars)) ELSE chars

RECURSIVE RStrip(_)
RStrip(chars) ==
  IF chars # <<>> /\ chars[Len(chars)] \in Whitespace
  THEN RStrip(SubSeq(chars, 1, Len(chars) - 1))
  ELSE chars

\* .str.strip().str.replace('\n', ' ')
CleanHeader(chars) ==
  LET stripped == RStrip(LStrip(chars))
  IN [i \in 1..Len(stripped) |-> IF stripped[i] = "\n" THEN " " ELSE stripped[i]]

CleanHeaders(frame) ==
  [frame EXCEPT !.columns = [j \in 1..Len(frame.columns) |-> CleanHeader(frame.columns[j])]]

SelectColumn == <<"(","S","e","l","e","c","t"," ","C","o","l","u","m","n",")">>

FirstIndex(columns, name) ==
  CHOOSE j \in 1..Len(columns) :
    columns[j] = name /\ \A h \in 1..Len(columns) : columns[h] = name => j <= h

\* The selectbox's index for mapping rule k: 0 is "(Select Column)",
\* j is column j.  First the case-insensitive partial match over the
\* columns in order, then the exact match on the standard name.
default_index(columns, k) ==
  LET rule == mapping_rules[k]
      hits == {j \in 1..Len(columns) :
                 \E n \in 1..Len(rule.variations) :
                    Contains(Lower(columns[j]), rule.variations[n])}
      first == CHOOSE j \in hits : \A h \in hits : j <= h
  IN IF hits # {} THEN FirstIndex(columns, columns[first])
     ELSE IF \E j \in 1..Len(columns) : columns[j] = rule.standard_name
     THEN FirstIndex(columns, rule.standard_name)
     ELSE 0

DefaultChoice(frame) ==
  [k \in 1..Len(mapping_rules) |-> default_index(CleanHeaders(frame).columns, k)]

\* The option a selectbox returns.
Selected(columns, option) == IF option = 0 THEN SelectColumn ELSE columns[option]

\* new_columns[selected] = standard_name, in rule order: a later rule
\* overwrites an earlier one that selected the same column.
new_columns(columns, choice) ==
  LET picks == {k \in 1..Len(mapping_rules) : Selected(columns, choice[k]) # SelectColumn}
  IN [c \in {Selected(columns, choice[k]) : k \in picks} |->
        mapping_rules[CHOOSE k \in picks :
                        /\ Selected(columns, choice[k]) = c
                        /\ \A h \in picks : Selected(columns, choice[h]) = c => h <= k
                     ].standard_name]

\* for req in mapping_rules.keys(): if req not in df_mapped.columns: df_mapped[req] = 0
AddIfMissing(frame, req) ==
  IF HasColumn(frame, req) THEN frame
  ELSE SetColumn(frame, req, [i \in 1..Len(frame.data) |-> Num(0)])

RECURSIVE AddMissing(_, _)
AddMissing(frame, k) ==
  IF k > Len(mapping_rules) THEN frame
  ELSE LET rest(f) == AddMissing(f, k + 1)
       IN Call(rest, AddIfMissing(frame, mapping_rules[k].standard_name))

\* choice[k] is the option the user leaves or sets in selectbox k.
\* df.rename(columns=new_columns)
rename(frame, nc) ==
  [frame EXCEPT !.columns =
     [j \in 1..Len(frame.columns) |->
        IF frame.columns[j] \in DOMAIN nc THEN nc[frame.columns[j]]
        ELSE frame.columns[j]]]

smart_map_columns(frame, choice) ==
  LET Mapped(cleaned) ==
        LET Renamed(nc) ==
              IF DOMAIN nc # {} THEN AddMissing(rename(cleaned, nc), 1) ELSE cleaned
        IN Call(Renamed, new_columns(cleaned.columns, choice))
  IN Call(Mapped, CleanHeaders(frame))

(***************************************************************************)
(* Inputs.                                                                 *)
(***************************************************************************)
template_columns ==
  <<Company, Pledge_Pct, Sales, Receivables, Inventory, CFO, EBITDA,
    Total_Assets, Non_Current_Assets, RPT_Vol>>

\* One row in the template's column order; the numbers are in units.
TemplateRow(company, pledge, sales, receivables, inventory, cfo, ebitda,
            total_assets, non_current_assets, rpt_vol) ==
  <<Txt(company), Num(Units(pledge)), Num(Units(sales)), Num(Units(receivables)),
    Num(Units(inventory)), Num(Units(cfo)), Num(Units(ebitda)),
    Num(Units(total_assets)), Num(Units(non_current_assets)), Num(Units(rpt_vol))>>

template ==
  [columns |-> template_columns,
   data |-> <<TemplateRow("Vedanta", 99, 12000, 3500, 1500, 2000, 4000, 50000, 35000, 1200),
              TemplateRow("L&T", 0, 4000, 400, 300, 3500, 3800, 20000, 10000, 50),
              TemplateRow("Adani Ent", 25, 8000, 1200, 800, 500, 1500, 35000, 25000, 500),
              TemplateRow("Tata Steel", 0, 15000, 900, 2000, 3000, 4500, 60000, 40000, 100),
              TemplateRow("Reliance", 0, 20000, 1500, 2500, 18000, 22000, 100000, 70000, 200)>>]

\* The editor's columns are float columns: a cell holds a number or is
\* empty.  Pledge_Pct: numbers around the thresholds 10, 20 and 50.
PledgeCells ==
  {Num(0), Num(950), Num(Units(10)), Num(Units(20)), Num(2050), Num(Units(50)),
   Num(5050), Num(Units(99)), Num(Units(0 - 5)), NaN}

\* <<Sales, Receivables, RPT_Vol>>
SalesCells ==
  {<<Num(Units(12000)), Num(Units(3500)), Num(Units(1200))>>,
   <<Num(0), Num(Units(500)), Num(Units(50))>>,
   <<Num(Units(0 - 100)), Num(Units(500)), Num(Units(50))>>,
   <<Num(Units(1000)), Num(Units(400)), Num(Units(101))>>,
   <<Num(Units(1000)), Num(Units(100)), Num(Units(101))>>,
   <<Num(Units(7300)), Num(Units(2400)), Num(Units(730))>>,
   <<Num(Units(7300)), Num(Units(3)), Num(Units(0 - 40))>>,
   <<NaN, Num(Units(500)), Num(Units(50))>>,
   <<Num(Units(1000)), NaN, NaN>>}

\* <<CFO, EBITDA>>
CashCells ==
  {<<Num(Units(2000)), Num(Units(4000))>>,
   <<Num(Units(1999)), Num(Units(4000))>>,
   <<Num(Units(1960)), Num(Units(4000))>>,
   <<Num(Units(3000)), Num(Units(4000))>>,
   <<Num(Units(3180)), Num(Units(4000))>>,
   <<Num(Units(3200)), Num(Units(4000))>>,
   <<Num(Units(500)), Num(0)>>,
   <<Num(Units(500)), Num(Units(0 - 100))>>,
   <<Num(Units(0 - 500)), Num(Units(1000))>>,
   <<NaN, Num(Units(4000))>>,
   <<Num(Units(500)), NaN>>}

\* <<Total_Assets, Non_Current_Assets>>
AssetCells ==
  {<<Num(Units(50000)), Num(Units(35000))>>,
   <<Num(0), Num(Units(100))>>,
   <<Num(Units(0 - 10)), Num(Units(100))>>}

InputRow(company, pledge, sales, cash, assets) ==
  <<Txt(company), pledge, sales[1], sales[2], Num(Units(1500)), cash[1], cash[2],
    assets[1], assets[2], sales[3]>>

\* One Pledge_Pct value on each side of the scoring thresholds 20 and 50.
PledgeTiers == {Num(Units(20)), Num(2050), Num(Units(50)), Num(5050)}

InputRows(company) ==
  {InputRow(company, p, s, c, <<Num(Units(50000)), Num(Units(35000))>>) :
     p \in PledgeTiers, s \in SalesCells, c \in CashCells}
    \cup {InputRow(company, Num(Units(99)), <<Num(0), Num(Units(500)), Num(Units(50))>>,
                    <<Num(Units(500)), Num(Units(0 - 100))>>, a) :
            a \in AssetCells}

\* Rows that differ from the template's first row in Pledge_Pct only.
PledgeRows ==
  {[template.data[1] EXCEPT ![2] = p] : p \in PledgeCells}

\* The rows that fill a batch.
FillerRows ==
  {[template.data[1] EXCEPT ![2] = p] :
     p \in {Num(0), Num(Units(10)), Num(Units(50)), Num(5050)}}

SecondRows ==
  {[template.data[2] EXCEPT ![2] = p] : p \in {Num(0), Num(Units(99))}}

\* n rows: `first`, `second`, then `rest` repeated.
Batch(n, first, second, rest) ==
  [columns |-> template_columns,
   data |-> [i \in 1..n |-> IF i = 1 THEN first ELSE IF i = 2 THEN second ELSE rest]]

\* Batch sizes on both sides of the sample-size threshold 30.
BatchSizes == {2, 29, 30, MaxRows}

\* st.data_editor(pd.DataFrame(template), num_rows="dynamic")
ManualInputs ==
  {template}
    \cup {Batch(1, r, r, r) : r \in InputRows("Vedanta")}
    \cup {Batch(n, f, s, r) :
            n \in BatchSizes, f \in PledgeRows, s \in SecondRows, r \in FillerRows}

\* st.data_editor(pd.DataFrame(detected)): one row, every column present
PdfInputs ==
  {Batch(1, r, r, r) :
     r \in {InputRow("Detected Company", p, s, c, a) :
              p \in {Num(0), Num(Units(60))}, s \in SalesCells,
              c \in {<<Num(0), Num(0)>>, <<Num(Units(300)), Num(Units(400))>>},
              a \in {<<Num(0), Num(0)>>}}}

\* Cells of a sheet may hold text as well.
\* <<Pledge_Pct, <<Sales, Receivables, RPT_Vol>>, <<CFO, EBITDA>> >>
TextCells ==
  {<<Str(<<"6","0">>), <<Str(<<"1","0","0","0">>), Str(<<"4","0","0">>), Str(<<"1","0","0",".","5">>)>>,
     <<Str(<<"7","5","0">>), Str(<<"1","0","0","0",".","0","0">>)>> >>,
   <<Str(<<"n","/","a">>), <<Str(<<>>), Str(<<"5","0","0">>), Str(<<"5","0">>)>>,
     <<Str(<<"-","5","0","0">>), Str(<<"1","0","0","0">>)>> >>,
   <<Str(<<"5","0",".","5">>), <<Str(<<"1","2","0","0">>), Str(<<"3","5","0">>), Str(<<"-">>)>>,
     <<Str(<<"2","0","0">>), Str(<<"4","0","0","x">>)>> >>,
   <<Str(<<"2","5",".">>), <<Str(<<"1",".","2",".","3">>), Txt("Cr"), NaN>>,
     <<Str(<<".","5">>), Str(<<"1">>)>> >>}

TextRows ==
  {InputRow("Vedanta", t[1], t[2], t[3], <<Num(Units(5000)), Str(<<"3","5","0","0">>)>>) :
     t \in TextCells}

\* raw_df as read from an uploaded file.  The numbers of a sheet stay below
\* 5000 so that no product formed from a remapped column leaves TLC's
\* integer range.
Sheets ==
  {[columns |-> template_columns, data |-> <<r>>] : r \in TextRows} \cup
  {[columns |-> << <<"C","o","m","p","a","n","y"," ","N","a","m","e">>,
                   <<"P","r","o","m","o","t","e","r"," ","P","l","e","d","g","e"," ","%">>,
                   <<"N","e","t"," ","S","a","l","e","s">>,
                   <<"D","e","b","t","o","r","s">>,
                   <<"S","t","o","c","k">>,
                   CFO, EBITDA,
                   <<"T","o","t","a","l"," ","A","s","s","e","t","s">>,
                   <<"F","i","x","e","d"," ","A","s","s","e","t","s">>,
                   <<"R","P","T">> >>,
    data |-> <<TemplateRow("Vedanta", 99, 1200, 350, 150, 200, 400, 5000, 3500, 120),
               TemplateRow("Adani Ent", 25, 800, 120, 80, 50, 150, 3500, 2500, 50)>>],
   [columns |-> template_columns,
    data |-> <<TemplateRow("L&T", 0, 400, 40, 30, 350, 380, 2000, 1000, 5),
               InputRow("Blank", NaN, <<NaN, NaN, NaN>>, <<NaN, NaN>>, <<NaN, NaN>>)>>],
   [columns |-> << <<"T","i","c","k","e","r">>, <<"M","c","a","p">> >>,
    data |-> << <<Txt("VEDL"), Num(Units(900))>> >>],
   [columns |-> << <<"R","e","v","e","n","u","e">>, Sales, <<"P","l","e","d","g","e">> >>,
    data |-> << <<Num(Units(1200)), Num(Units(1100)), Num(Units(60))>> >>],
   [columns |-> << <<" ","N","a","m","e">>,
                   <<"P","l","e","d","g","e","d","\n","S","h","a","r","e","s"," ">>,
                   <<"T","u","r","n","o","v","e","r">> >>,
    data |-> << <<Txt("Vedanta"), Str(<<"6","0">>), Num(Units(1200))>>,
                <<Txt("L&T"), Str(<<"n","/","a">>), NaN>> >>]}

\* The selections a user can make: the detected defaults, or the defaults
\* with one selectbox changed.
Choices(sheet) ==
  {DefaultChoice(sheet)}
    \cup {[DefaultChoice(sheet) EXCEPT ![k] = o] :
            k \in 1..Len(mapping_rules), o \in 0..Len(sheet.columns)}

UploadInputs ==
  UNION {{smart_map_columns(sheet, ch) : ch \in Choices(sheet)} : sheet \in Sheets}

CalcInputs ==
  {[source |-> "manual", df |-> f] : f \in ManualInputs}
    \cup {[source |-> "pdf", df |-> f] : f \in PdfInputs}
    \cup {[source |-> "upload", df |-> f] : f \in UploadInputs}

(***************************************************************************)
(* Module 3, the sentiment scanner.                                        *)
(*                                                                         *)
(* A text is known by what the script reads of it: its length, whether it  *)
(* contains "Error", and the polarity and subjectivity TextBlob reports    *)
(* for it (hundredths, -100..100 and 0..100).                              *)
(***************************************************************************)
Text(length, has_Error, polarity, subjectivity) ==
  [len |-> length, has_Error |-> has_Error,
   polarity |-> polarity, subjectivity |-> subjectivity]

\* user_text = ""
EmptyText == Text(0, FALSE, 0, 0)

\* blob.sentiment
sentiment(text) == [polarity |-> text.polarity, subjectivity |-> text.subjectivity]

\* extract_url_text: the paragraphs joined, or "Error: {e}" when anything
\* raised.  "Error: " is seven characters.
extract_url_text(response) ==
  IF response.raised
  THEN Text(7 + response.e, TRUE, 0, 0)
  ELSE response.text

\* user_text[:1000] + "..." : the number of characters written
Preview(text) == (IF text.len < 1000 THEN text.len ELSE 1000) + 3

Pollyanna == "The Pollyanna Effect (High Risk)"
Panicked == "Panicked Obfuscation (Moderate Risk)"
StrongObjective == "Strong & Objective (Low Risk)"
HonestDistress == "Honest Distress (Safe Narrative)"
Neutral == "Neutral / Balanced"

\* Quadrant Analysis
quadrant(subj, sent) ==
  IF subj > 50 /\ sent > 20 THEN Pollyanna
  ELSE IF subj > 50 /\ sent < -20 THEN Panicked
  ELSE IF subj < 40 /\ sent > 20 THEN StrongObjective
  ELSE IF subj < 40 /\ sent < -20 THEN HonestDistress
  ELSE Neutral

\* One thing written to the page: st.error / st.success / st.warning, the
\* expander, or the verdict with the text it was computed from.
Note(kind, body, text, chars) ==
  [kind |-> kind, body |-> body, text |-> text, chars |-> chars]

\* the input section, lines 416-434
input_section(method, address, fetch, response, pasted) ==
  IF method = "text"
  THEN [user_text |-> pasted, notes |-> <<>>]
  ELSE IF address # "" /\ fetch
  THEN LET fetched == extract_url_text(response)
       IN IF fetched.has_Error
          THEN [user_text |-> fetched,
                notes |-> <<Note("error", "fetched text", fetched, fetched.len)>>]
          ELSE [user_text |-> fetched,
                notes |-> <<Note("success", "Text Fetched Successfully!", fetched, 0),
                            Note("expander", "View Fetched Text", fetched, Preview(fetched))>>]
  ELSE [user_text |-> EmptyText, notes |-> <<>>]

\* the analysis section, lines 437-480
analysis_section(method, address, text, run) ==
  IF ~run THEN <<>>
  ELSE IF text.len > 50
  THEN LET s == sentiment(text)
       IN <<Note("verdict", quadrant(s.subjectivity, s.polarity), text, 0)>>
  ELSE IF method = "url" /\ address = ""
  THEN <<Note("warning", "Please enter a URL first.", text, 0)>>
  ELSE IF method = "url" /\ address # "" /\ text.len = 0
  THEN <<Note("warning", "Please click 'Fetch Text from URL' first.", text, 0)>>
  ELSE <<Note("warning", "Please provide at least 50 characters of text for analysis.", text, 0)>>

ScannerIdle ==
  /\ input_method = "text"
  /\ url = ""
  /\ fetch_pressed = FALSE
  /\ user_text = EmptyText
  /\ run_pressed = FALSE
  /\ page = <<>>

(***************************************************************************)
(* Calculation harness: calculate_risk applied to a record set, and again  *)
(* to the record set it returned.                                          *)
(***************************************************************************)
NoSession == [k \in {} |-> None]

AppIdle ==
  /\ input_type = "manual"
  /\ df_in = None
  /\ pressed = FALSE
  /\ message = <<>>
  /\ session = NoSession
  /\ displayed = None
  /\ ScannerIdle

InitCalc ==
  /\ \E input \in CalcInputs : df = input.df /\ source = input.source
  /\ out = <<>>
  /\ AppIdle

Analyse ==
  /\ out = <<>>
  /\ out' = <<calculate_risk(df)>>
  /\ UNCHANGED <<df, source, input_type, df_in, pressed, message, session, displayed>>
  /\ UNCHANGED scan_vars

Reanalyse ==
  /\ out # <<>>
  /\ Len(out) < MaxRuns
  /\ out[Len(out)].raised = ""
  /\ out' = Append(out, calculate_risk(out[Len(out)].df))
  /\ UNCHANGED <<df, source, input_type, df_in, pressed, message, session, displayed>>
  /\ UNCHANGED scan_vars

NextCalc == Analyse \/ Reanalyse

SpecCalc == InitCalc /\ [][NextCalc]_vars

(***************************************************************************)
(* Module 1: one action is one run of the script, from the radio button    *)
(* to the results section.                                                 *)
(***************************************************************************)
Init ==
  /\ df = None
  /\ source = ""
  /\ out = <<>>
  /\ AppIdle

\* st.session_state.get('data_loaded')
data_loaded(state) ==
  "data_loaded" \in DOMAIN state /\ state["data_loaded"] = TRUE

\* The results section: what it reads from the session, or nothing.
Display(state) ==
  IF data_loaded(state)
  THEN [results |-> state["results"], method |-> state["method"]]
  ELSE None

\* if st.button("Run Forensic Analysis"): ... and the results section.
\* An exception of calculate_risk ends the run: nothing is stored and the
\* results section is not reached.
RunScript(type, loaded, press, notes) ==
  /\ input_type' = type
  /\ df_in' = loaded
  /\ pressed' = press
  /\ IF press /\ loaded # None
     THEN LET Handle(r) ==
                IF r.raised # ""
                THEN /\ session' = session
                     /\ message' = Append(notes, r.raised)
                     /\ displayed' = None
                ELSE /\ session' = [results |-> r.df, method |-> r.method,
                                    data_loaded |-> TRUE]
                     /\ message' = notes
                     /\ displayed' = [results |-> r.df, method |-> r.method]
          IN \E r \in {calculate_risk(loaded)} : Handle(r)
     ELSE /\ session' = session
          /\ message' = IF press THEN Append(notes, "Please provide valid data.")
                        ELSE notes
          /\ displayed' = Display(session)
  /\ UNCHANGED <<df, source, out>>
  /\ UNCHANGED scan_vars

\* What the model's user leaves in the editor.
EditorInputs ==
  {template,
   Batch(1, template.data[3], template.data[3], template.data[3]),
   Batch(2, template.data[1], template.data[2], template.data[2]),
   Batch(29, template.data[1], template.data[2], template.data[3]),
   Batch(30, template.data[1], template.data[2], template.data[3]),
   Batch(MaxRows, template.data[4], template.data[5], template.data[1])}

\* input_type == "Manual Entry": df_in = st.data_editor(...)
RerunManual(press) ==
  \E edited \in EditorInputs : RunScript("manual", edited, press, <<>>)

\* input_type == "Upload Excel", no file in the uploader: df_in stays None
RerunNoFile(press) == RunScript("upload", None, press, <<>>)

\* a file that pd.read_csv / pd.read_excel rejects: st.error, df_in stays None
RerunUnreadableFile(press) ==
  RunScript("upload", None, press, <<"Error loading file">>)

\* a file that loads: df_in = smart_map_columns(raw_df), the selectboxes
\* left at the detected columns
RerunUpload(press) ==
  \E sheet \in Sheets :
     RunScript("upload", smart_map_columns(sheet, DefaultChoice(sheet)), press, <<>>)

Next ==
  \E press \in BOOLEAN :
     \/ RerunManual(press)
     \/ RerunNoFile(press)
     \/ RerunUnreadableFile(press)
     \/ RerunUpload(press)

Spec == Init /\ [][Next]_vars


(***************************************************************************)
(* Module 3: one action is one run of the script.  A button is true only   *)
(* in the rerun its own click started, so at most one of the two buttons   *)
(* is true in a rerun; user_text is a local of the script and starts each  *)
(* rerun as "".                                                            *)
(***************************************************************************)
Lengths == {50, 51, MaxChars}
Polarities == {-100, -21, -20, 20, 21, 100}
Subjectivities == {39, 40, 50, 51}

\* the texts a user pastes or a page's paragraphs make up
Texts ==
  {EmptyText} \cup
  {Text(n, e, p, s) : n \in Lengths, e \in BOOLEAN, p \in Polarities, s \in Subjectivities}

\* st.text_input: nothing entered, or an address
Urls == {"", "https://example.com/a", "https://example.com/b"}

\* what requests.get / BeautifulSoup do for an address: a page, or an
\* exception whose message has e characters
Responses ==
  {[raised |-> FALSE, text |-> t, e |-> 0] : t \in Texts} \cup
  {[raised |-> TRUE, text |-> EmptyText, e |-> n] : n \in {30, 90}}

RunScanner(method, address, fetch, response, run, pasted) ==
  LET in == input_section(method, address, fetch, response, pasted)
  IN /\ input_method' = method
     /\ url' = address
     /\ fetch_pressed' = fetch
     /\ user_text' = in.user_text
     /\ run_pressed' = run
     /\ page' = in.notes \o analysis_section(method, address, in.user_text, run)
     /\ UNCHANGED risk_vars

\* "Paste Text": user_text = st.text_area(...)
RerunPasteText(run) ==
  \E pasted \in Texts :
     RunScanner("text", "", FALSE, [raised |-> FALSE, text |-> EmptyText, e |-> 0],
                run, pasted)

\* "Paste URL", the fetch button not clicked (or not drawn: no address)
RerunUrl(run) ==
  \E address \in Urls :
     RunScanner("url", address, FALSE, [raised |-> FALSE, text |-> EmptyText, e |-> 0],
                run, EmptyText)

\* "Paste URL", an address entered and "Fetch Text from URL" clicked
RerunFetch ==
  \E address \in Urls \ {""} : \E response \in Responses :
     RunScanner("url", address, TRUE, response, FALSE, EmptyText)

NextScan ==
  \/ \E run \in BOOLEAN : RerunPasteText(run)
  \/ \E run \in BOOLEAN : RerunUrl(run)
  \/ RerunFetch

SpecScan == Init /\ [][NextScan]_vars

(***************************************************************************)
(* Properties of calculate_risk, stated over what the harness recorded.    *)
(***************************************************************************)
\* the applications that returned
Returned == {n \in 1..Len(out) : out[n].raised = ""}

\* the value of column c in row i of a returned record set
Value(n, i, c) == Get(out[n].df, out[n].df.data[i], c).v

Label(n, i, c) == Get(out[n].df, out[n].df.data[i], c).l

Report(n, i) == Get(out[n].df, out[n].df.data[i], Detailed_Report).o

RowsOf(n) == 1..Len(out[n].df.data)

PledgePoints(p) ==
  IF p > Units(50) THEN 25 ELSE IF Units(20) < p /\ p <= Units(50) THEN 10 ELSE 0

CashPoints(q) == IF q < 50 THEN 30 ELSE IF 50 <= q /\ q < 80 THEN 15 ELSE 0

RevenuePoints(d) == IF d > Units(120) THEN 20 ELSE 0

RelatedPartyPoints(r) == IF r > Units(10) THEN 10 ELSE 0

PledgeTexts == {"Critical Pledge Pressure", "Moderate Pledge"}
CashTexts == {"Fake Profit Alert", "Weak Cash Flow"}

Count(report, texts) == Cardinality({k \in 1..Len(report) : report[k].text \in texts})

\* C1: Forensic_Score is the sum of the rule contributions (+25 / +10 for
\* Pledge_Pct > 50 / in (20, 50]; +30 / +15 for Cash_Quality < 0.5 / in
\* [0.5, 0.8); +20 for DSO > 120; +10 for RPT_Intensity > 10) and nothing
\* else, and at most one Pledge tier and one Cash tier contribute.
C1_ScoreIsSumOfRules ==
  \A n \in Returned : \A i \in RowsOf(n) :
    /\ Value(n, i, Forensic_Score) =
         Units(PledgePoints(Value(n, i, Pledge_Pct))
               + CashPoints(Value(n, i, Cash_Quality))
               + RevenuePoints(Value(n, i, DSO))
               + RelatedPartyPoints(Value(n, i, RPT_Intensity)))
    /\ Count(Report(n, i), PledgeTexts) <= 1
    /\ Count(Report(n, i), CashTexts) <= 1

\* a scored record in which all four categories contribute: 25 + 15 + 20 + 10
C1_Witness ==
  \E n \in Returned : \E i \in RowsOf(n) :
    /\ Value(n, i, Pledge_Pct) > Units(50)
    /\ Value(n, i, Cash_Quality) >= 50 /\ Value(n, i, Cash_Quality) < 80
    /\ Value(n, i, DSO) > Units(120)
    /\ Value(n, i, RPT_Intensity) > Units(10)
    /\ Value(n, i, Forensic_Score) = Units(70)

\* C2: the Verdict is decided by Forensic_Score alone: >= 60 high
\* probability of manipulation, 35..59 moderate risk, < 35 low risk, and
\* it is one of the three labels.
C2_VerdictByScore ==
  \A n \in Returned : \A i \in RowsOf(n) :
    LET score == Value(n, i, Forensic_Score)
        verdict == Label(n, i, Verdict)
    IN /\ score >= Units(60) => verdict = HighVerdict
       /\ (Units(35) <= score /\ score <= Units(59)) => verdict = ModerateVerdict
       /\ score < Units(35) => verdict = LowVerdict
       /\ verdict \in {HighVerdict, ModerateVerdict, LowVerdict}

\* a record scored exactly 60 (30 + 20 + 10), the lowest high-tier score
C2_Witness ==
  \E n \in Returned : \E i \in RowsOf(n) :
    /\ Value(n, i, Forensic_Score) = Units(60)
    /\ Label(n, i, Verdict) = HighVerdict

\* C3: Risk_Group depends on Pledge_Pct and the record count only: below 30
\* records Critical iff Pledge_Pct > 50 and Control otherwise; from 30
\* records on Critical iff > 50, Moderate iff 10 <= Pledge_Pct <= 50, Safe
\* otherwise.
C3_RiskGroupByPledgeAndCount ==
  \A n \in Returned : \A i \in RowsOf(n) :
    LET p == Value(n, i, Pledge_Pct)
        group == Label(n, i, Risk_Group)
        count == Len(out[n].df.data)
    IN /\ count < 30 =>
            group = (IF p > Units(50) THEN Critical ELSE Control)
       /\ count >= 30 =>
            group = (IF p > Units(50) THEN Critical
                     ELSE IF Units(10) <= p /\ p <= Units(50) THEN Moderate
                     ELSE Safe)

\* a batch of 30 or more holding Pledge_Pct = 10 and Pledge_Pct = 50, both Moderate
C3_Witness ==
  \E n \in Returned :
    /\ Len(out[n].df.data) >= 30
    /\ \E i \in RowsOf(n) :
         Value(n, i, Pledge_Pct) = Units(10) /\ Label(n, i, Risk_Group) = Moderate
    /\ \E i \in RowsOf(n) :
         Value(n, i, Pledge_Pct) = Units(50) /\ Label(n, i, Risk_Group) = Moderate

IsNumber(n, i, c) == Get(out[n].df, out[n].df.data[i], c).t = "num"

\* C4: a derived ratio is 0 whenever its denominator is not positive
\* (Sales for DSO and RPT_Intensity, EBITDA for Cash_Quality, Total_Assets
\* for AQI), and no division by zero occurs: every ratio is a number.
C4_ZeroGuardedRatios ==
  \A n \in Returned : \A i \in RowsOf(n) :
    /\ Value(n, i, Sales) <= 0 =>
         Value(n, i, DSO) = 0 /\ Value(n, i, RPT_Intensity) = 0
    /\ Value(n, i, EBITDA) <= 0 => Value(n, i, Cash_Quality) = 0
    /\ Value(n, i, Total_Assets) <= 0 => Value(n, i, AQI) = 0
    /\ \A c \in {DSO, Cash_Quality, AQI, RPT_Intensity} : IsNumber(n, i, c)

\* a record with Sales = 0, EBITDA < 0 and Total_Assets <= 0 whose
\* numerators are all non-zero
C4_Witness ==
  \E n \in Returned : \E i \in RowsOf(n) :
    /\ Value(n, i, Sales) = 0
    /\ Value(n, i, Receivables) > 0 /\ Value(n, i, RPT_Vol) > 0
    /\ Value(n, i, EBITDA) < 0 /\ Value(n, i, CFO) > 0
    /\ Value(n, i, Total_Assets) <= 0 /\ Value(n, i, Non_Current_Assets) > 0
    /\ Value(n, i, Cash_Quality) = 0

\* the cell of column c in row i of the record set handed in
InputCell(i, c) == Get(df, df.data[i], c)

\* C5: numeric normalisation never fails: no exception is raised, every
\* one of the nine fields is a number afterwards, a field absent from the
\* input is 0 and a value that fails numeric parsing is 0.
C5_NormalisationNeverFails ==
  out # <<>> =>
    /\ out[1].raised = ""
    /\ 1 \in Returned =>
         \A k \in 1..Len(cols) : \A i \in RowsOf(1) :
           /\ IsNumber(1, i, cols[k])
           /\ ~HasColumn(df, cols[k]) => Value(1, i, cols[k]) = 0
           /\ (HasColumn(df, cols[k]) /\ to_numeric(InputCell(i, cols[k])).t = "nan")
                => Value(1, i, cols[k]) = 0

LabelsOf(n) == {Label(n, i, Risk_Group) : i \in RowsOf(n)}

\* C6 as stated: a batch of 29 shows exactly the labels {Critical, Control}
\* and a batch of 30 exactly {Critical, Moderate, Safe}.
C6_ExactLabelSets ==
  \A n \in Returned :
    /\ Len(out[n].df.data) = 29 => LabelsOf(n) = {Critical, Control}
    /\ Len(out[n].df.data) = 30 => LabelsOf(n) = {Critical, Moderate, Safe}

\* C6 as amended: a batch of 29 shows labels from {Critical, Control} only
\* and a batch of 30 labels from {Critical, Moderate, Safe} only; a label
\* appears exactly when some record's Pledge_Pct falls in its range.
C6_LabelsWithinProtocol ==
  \A n \in Returned :
    LET pledges == {Value(n, i, Pledge_Pct) : i \in RowsOf(n)}
    IN /\ Len(out[n].df.data) = 29 =>
            /\ LabelsOf(n) \subseteq {Critical, Control}
            /\ Critical \in LabelsOf(n) <=> \E p \in pledges : p > Units(50)
            /\ Control \in LabelsOf(n) <=> \E p \in pledges : p <= Units(50)
       /\ Len(out[n].df.data) = 30 =>
            /\ LabelsOf(n) \subseteq {Critical, Moderate, Safe}
            /\ Critical \in LabelsOf(n) <=> \E p \in pledges : p > Units(50)
            /\ Moderate \in LabelsOf(n) <=>
                 \E p \in pledges : Units(10) <= p /\ p <= Units(50)
            /\ Safe \in LabelsOf(n) <=> \E p \in pledges : p < Units(10)

\* a batch of 30 in which all three labels appear
C6_Witness ==
  \E n \in Returned :
    Len(out[n].df.data) = 30 /\ LabelsOf(n) = {Critical, Moderate, Safe}

\* C7: Sales = 12000, Receivables = 3500, CFO = 2000, EBITDA = 4000,
\* Pledge_Pct = 99 and no related-party trigger give DSO = 106.5,
\* Cash_Quality = 0.5, +25 for Pledge, +15 for Cash, score 40 and the
\* moderate-risk verdict.
C7_EndToEndExample ==
  \A n \in Returned : \A i \in RowsOf(n) :
    (/\ Value(n, i, Sales) = Units(12000)
     /\ Value(n, i, Receivables) = Units(3500)
     /\ Value(n, i, CFO) = Units(2000)
     /\ Value(n, i, EBITDA) = Units(4000)
     /\ Value(n, i, Pledge_Pct) = Units(99)
     /\ Value(n, i, RPT_Vol) = Units(1200))
    => /\ Value(n, i, DSO) = 10650
       /\ Value(n, i, Cash_Quality) = 50
       /\ Report(n, i) = <<Obs("Critical Pledge Pressure", Units(99)),
                            Obs("Weak Cash Flow", 0)>>
       /\ Value(n, i, Forensic_Score) = Units(40)
       /\ Label(n, i, Verdict) = ModerateVerdict

\* the template's first row has been scored
C7_Witness ==
  \E n \in Returned : \E i \in RowsOf(n) :
    /\ Value(n, i, Sales) = Units(12000)
    /\ Value(n, i, Receivables) = Units(3500)
    /\ Value(n, i, CFO) = Units(2000)
    /\ Value(n, i, EBITDA) = Units(4000)
    /\ Value(n, i, Pledge_Pct) = Units(99)
    /\ Value(n, i, RPT_Vol) = Units(1200)
    /\ Value(n, i, Forensic_Score) = Units(40)

\* The category an observation belongs to.
Category(text) ==
  CASE text \in PledgeTexts -> "Pledge"
    [] text \in CashTexts -> "Cash"
    [] text = "Aggressive Revenue" -> "Revenue collection"
    [] text = "Leakage Risk" -> "Related-party"

\* The categories whose rule the record triggers, in the fixed order.
Triggered(n, i) ==
  (IF Value(n, i, Pledge_Pct) > Units(20) THEN <<"Pledge">> ELSE <<>>)
    \o (IF Value(n, i, Cash_Quality) < 80 THEN <<"Cash">> ELSE <<>>)
    \o (IF Value(n, i, DSO) > Units(120) THEN <<"Revenue collection">> ELSE <<>>)
    \o (IF Value(n, i, RPT_Intensity) > Units(10) THEN <<"Related-party">> ELSE <<>>)

\* C8: Detailed_Report holds exactly one observation per triggered rule, in
\* the order Pledge, Cash, Revenue collection, Related-party; it is empty
\* exactly when no rule is triggered.
C8_ReportOrder ==
  \A n \in Returned : \A i \in RowsOf(n) :
    /\ [k \in 1..Len(Report(n, i)) |-> Category(Report(n, i)[k].text)] = Triggered(n, i)
    /\ Report(n, i) = <<>> <=> Value(n, i, Forensic_Score) = 0

\* a report with all four observations
C8_Witness ==
  \E n \in Returned : \E i \in RowsOf(n) : Len(Report(n, i)) = 4

DerivedColumns ==
  {DSO, Cash_Quality, AQI, RPT_Intensity, Risk_Group, Forensic_Score, Verdict,
   Detailed_Report}

\* C9: applying calculate_risk again to the record set it returned gives
\* the same derived columns for every record and the same grouping method.
C9_Idempotent ==
  \A n \in 2..Len(out) :
    /\ out[n].raised = ""
    /\ out[n].method = out[1].method
    /\ Len(out[n].df.data) = Len(out[1].df.data)
    /\ \A i \in RowsOf(1) : \A c \in DerivedColumns :
         Get(out[n].df, out[n].df.data[i], c) = Get(out[1].df, out[1].df.data[i], c)

\* a second application to a record set that already carries a positive score
C9_Witness ==
  /\ Len(out) >= 2
  /\ out[2].raised = ""
  /\ \E i \in RowsOf(1) : Value(1, i, Forensic_Score) > 0

(***************************************************************************)
(* Properties of the Module 1 session.                                     *)
(***************************************************************************)
\* C10: a press with df_in set stores that run's result, method and
\* data_loaded = True; a press with df_in None reports the error and
\* leaves the session unchanged; a rerun without a press leaves it
\* unchanged; data_loaded never goes back to false; the results section
\* shows what the session holds.
C10_SessionHoldsLastValidRun ==
  [][/\ (pressed' /\ df_in' # None) =>
          /\ data_loaded(session')
          /\ session'["results"] = calculate_risk(df_in').df
          /\ session'["method"] = calculate_risk(df_in').method
     /\ (pressed' /\ df_in' = None) =>
          /\ session' = session
          /\ message'[Len(message')] = "Please provide valid data."
     /\ ~pressed' => session' = session
     /\ data_loaded(session) => data_loaded(session')
     /\ displayed' = Display(session')]_vars


(***************************************************************************)
(* Properties of the Module 3 sentiment scanner.                           *)
(***************************************************************************)
\* the rerun fetched more than 50 characters from the address, without error
FetchedWithoutError ==
  /\ input_method = "url"
  /\ url # ""
  /\ fetch_pressed
  /\ ~user_text.has_Error
  /\ user_text.len > 50

\* C11: in URL mode, when a rerun has fetched more than 50 characters of
\* text without error and the next rerun is a press of "Run Sentiment
\* Analysis" with the same address still entered, that rerun writes a tone
\* verdict computed from the fetched text, and no warning.
C11_FetchedTextReachesClassifier ==
  [][(/\ FetchedWithoutError
      /\ input_method' = "url"
      /\ url' = url
      /\ run_pressed')
     => /\ \E k \in 1..Len(page') :
             /\ page'[k].kind = "verdict"
             /\ page'[k].text = user_text
             /\ page'[k].body = quadrant(user_text.subjectivity, user_text.polarity)
        /\ \A k \in 1..Len(page') : page'[k].kind # "warning"]_vars

(***************************************************************************)
(* The range of Forensic_Score.                                            *)
(***************************************************************************)
\* the scores of a scored record set, as the 'Score: x/100' line shows them
ScoresOf(frame) ==
  {Get(frame, frame.data[i], Forensic_Score).v : i \in 1..Len(frame.data)}

\* a whole number of points that is a multiple of 5 between 0 and 85
IsFiveStepUpTo85(score) ==
  /\ score % Units(5) = 0
  /\ score >= 0
  /\ score <= Units(25 + 30 + 20 + 10)

\* C12: for every record of every input, Forensic_Score is a non-negative
\* integer multiple of 5 and is at most 85 (25 + 30 + 20 + 10), so every
\* score returned by calculate_risk, and every score the Module 1 results
\* section shows as 'Score: x/100', is at most 100.
C12_ScoreIsMultipleOfFiveUpTo85 ==
  /\ \A n \in Returned : \A s \in ScoresOf(out[n].df) :
        IsFiveStepUpTo85(s) /\ s <= Units(100)
  /\ displayed # None =>
        \A s \in ScoresOf(displayed.results) : IsFiveStepUpTo85(s) /\ s <= Units(100)

\* a scored record in which every rule fires at its highest tier: the score is 85
C12_Witness ==
  \E n \in Returned : \E i \in RowsOf(n) :
    /\ Value(n, i, Pledge_Pct) > Units(50)
    /\ Value(n, i, Cash_Quality) < 50
    /\ Value(n, i, DSO) > Units(120)
    /\ Value(n, i, RPT_Intensity) > Units(10)
    /\ Value(n, i, Forensic_Score) = Units(85)
====
